---- MODULE Spec2Model ----
(***************************************************************************)
(* The optimizer of qosf_task3.py: simplify = removeZeroRotations, then    *)
(* removeDoubleCZ, then combineRotations, over circuit.data (a Python      *)
(* list of instructions) and the per-wire stacks of tags.                  *)
(*                                                                         *)
(* Angles are integers in thousandths of a radian; 2*PI is 6283.           *)
(* Indices (i, n, j, tag indices, indicesToPop) are Python's 0-based       *)
(* indices; the Py* operators translate them to TLA+ sequences, negative   *)
(* indices included.  The field id of an instruction is the identity of    *)
(* the Python object (its position in the input); the code never reads it. *)
(* An exception leaves pc = "error" with err its type.                     *)
(*                                                                         *)
(* Spec starts from every input of Inputs, SpecSmall from InputsSmall.     *)
(***************************************************************************)
EXTENDS Integers, Sequences, FiniteSets, TLC

\* ---- bounds of the checked inputs ----
NQ == 3
MaxLen == 4
ShortLen == 3
MaxRot == 2
SmallLen == 2
RunLen == 4
MaxGates == 2
MaxArity == 3
MaxDec == 2

\* ---- program constants ----
TwoPI == 6283

\* angles of the inputs: the two no-op angles and three others
Angles == {0, TwoPI, 3140, 1000, -1000}

\* angles of the inputs longer than ShortLen
LongAngles == {3140, 1000}

Qubits == 0 .. (NQ - 1)

\* ---- Python list operations ----
PyIdx(k, len) == IF k < 0 THEN k + len ELSE k

InRange(k, len) == PyIdx(k, len) >= 0 /\ PyIdx(k, len) < len

PyGet(l, k) == l[PyIdx(k, Len(l)) + 1]

PyDel(l, k) ==
  LET p == PyIdx(k, Len(l)) + 1
  IN  [m \in 1 .. (Len(l) - 1) |-> IF m < p THEN l[m] ELSE l[m + 1]]

\* l.insert(k, v) in the place of l[k] = v
PyInsert(l, k, v) ==
  LET p == PyIdx(k, Len(l)) + 1
  IN  [m \in 1 .. (Len(l) + 1) |-> IF m < p THEN l[m] ELSE IF m = p THEN v ELSE l[m - 1]]

PySet(l, k, v) == [l EXCEPT ![PyIdx(k, Len(l)) + 1] = v]

Front(l) == SubSeq(l, 1, Len(l) - 1)

Top(l) == l[Len(l)]

\* round(x, 2) on thousandths: the nearest multiple of 10, ties to even
Round2(x) ==
  LET q == x \div 10
      r == x % 10
  IN  IF r < 5 THEN 10 * q
      ELSE IF r > 5 THEN 10 * (q + 1)
      ELSE IF q % 2 = 0 THEN 10 * q ELSE 10 * (q + 1)

\* ---- instructions ----
Rotation(name, q, a) == [name |-> name, params |-> <<a>>, qubits |-> <<q>>]

Entangle(a, b) == [name |-> "cz", params |-> <<>>, qubits |-> <<a, b>>]

RotationsOver(A) == {Rotation(nm, q, a) : nm \in {"rx", "rz"}, q \in Qubits, a \in A}

Entangles == {Entangle(a, b) : a \in Qubits, b \in Qubits} \ {Entangle(a, a) : a \in Qubits}

NumRot(s) == Cardinality({k \in DOMAIN s : s[k].name # "cz"})

\* every sequence of at most ShortLen gates, and the longer ones up to MaxLen
\* with at most MaxRot rotations, angles from LongAngles
Inputs ==
  UNION ( {[1 .. m -> RotationsOver(Angles) \cup Entangles] : m \in 0 .. ShortLen}
          \cup
          {{s \in [1 .. m -> RotationsOver(LongAngles) \cup Entangles] : NumRot(s) <= MaxRot}
             : m \in (ShortLen + 1) .. MaxLen} )

\* the small inputs: every sequence of at most SmallLen gates, and the runs of
\* at most RunLen cz on one qubit pair, in either target order
PairRuns ==
  UNION {[1 .. m -> {e, Entangle(e.qubits[2], e.qubits[1])}] :
           m \in 1 .. RunLen, e \in Entangles}

InputsSmall ==
  UNION {[1 .. m -> RotationsOver(Angles) \cup Entangles] : m \in 0 .. SmallLen}
    \cup PairRuns

\* circuit.data of a fresh circuit: every instruction is its own object
WithIds(s) ==
  [k \in DOMAIN s |->
     [name |-> s[k].name, params |-> s[k].params, qubits |-> s[k].qubits, id |-> k]]

Strip(c) ==
  [k \in DOMAIN c |-> [name |-> c[k].name, params |-> c[k].params, qubits |-> c[k].qubits]]

\* ---- wire tags: name + str(i); tag[:2] is kind, int(tag[2:]) is idx ----
\* id is the instruction the tag was recorded for (not in the code's string)
Sentinel == [kind |-> "", idx |-> -1, id |-> 0]

Tag(ins, k) == [kind |-> ins.name, idx |-> k, id |-> ins.id]

VARIABLES input, circuit, wires, indicesToPop, i, n, j, pc, err, run, out1, hist,
          source, item, decomposedCircuit

\* the variables of compiler: the circuit it is given, the number of items of
\* source.data its for loop has taken, and the circuit it builds
cvars == <<source, item, decomposedCircuit>>

vars == <<input, circuit, wires, indicesToPop, i, n, j, pc, err, run, out1, hist,
          source, item, decomposedCircuit>>

\* hist: what the last step did (observation only, never read by an action)
NoIns == [name |-> "", params |-> <<>>, qubits |-> <<>>, id |-> 0]

Did(op, x, y, t1, t2) == [op |-> op, x |-> x, y |-> y, t1 |-> t1, t2 |-> t2]

NoHist == Did("none", NoIns, NoIns, Sentinel, Sentinel)

Start(ins) ==
  /\ input \in ins
  /\ circuit = WithIds(input)
  /\ wires = [q \in Qubits |-> <<>>]
  /\ indicesToPop = <<>>
  /\ i = 0
  /\ n = Len(input)
  /\ j = 0
  /\ pc = "removeZeroRotations"
  /\ err = "none"
  /\ run = 1
  /\ out1 = <<>>
  /\ hist = NoHist
  /\ source = <<>>
  /\ item = 0
  /\ decomposedCircuit = <<>>

Init == Start(Inputs)

InitSmall == Start(InputsSmall)

\* ---- removeZeroRotations ----
\* the test of the zero angle alone
IsZeroAngleOnly(ins) == ins.params = <<0>>

\* angle==[0.0] or angle==[2*PI]
IsZeroRotation(ins) == ins.params = <<0>> \/ ins.params = <<TwoPI>>

\* one iteration of the while loop
removeZeroRotations ==
  /\ pc = "removeZeroRotations"
  /\ i < n
  /\ IF IsZeroRotation(PyGet(circuit, i))
       THEN /\ circuit' = PyDel(circuit, i)
            /\ i' = i
            /\ n' = n - 1
            /\ hist' = Did("drop", PyGet(circuit, i), NoIns, Sentinel, Sentinel)
       ELSE /\ circuit' = circuit
            /\ i' = i + 1
            /\ n' = n
            /\ hist' = Did("keep", PyGet(circuit, i), NoIns, Sentinel, Sentinel)
  /\ UNCHANGED cvars
  /\ UNCHANGED <<input, wires, indicesToPop, j, pc, err, run, out1>>

\* return circuit; simplify then enters removeDoubleCZ
removeZeroRotationsReturn ==
  /\ pc = "removeZeroRotations"
  /\ i >= n
  /\ wires' = [q \in Qubits |-> <<Sentinel>>]
  /\ n' = Len(circuit)
  /\ i' = 0
  /\ pc' = "removeDoubleCZ"
  /\ hist' = NoHist
  /\ UNCHANGED cvars
  /\ UNCHANGED <<input, circuit, indicesToPop, j, err, run, out1>>

\* ---- removeDoubleCZ ----
\* the rewind left out
RewindNone(k) == k

\* i=i-2 after the two pops
Rewind(k) == k - 2

\* the test before the pops: both tops are tags of a cz
BothTopsCZ(t1, t2) == t1.kind = "cz" /\ t2.kind = "cz"

\* one iteration of the while loop
removeDoubleCZ ==
  /\ pc = "removeDoubleCZ"
  /\ i < n
  /\ LET cur == PyGet(circuit, i)
         qubit1 == cur.qubits[1]
         qubit2 == cur.qubits[2]
         t1 == Top(wires[qubit1])
         t2 == Top(wires[qubit2])
         popped == PyDel(circuit, i)
     IN  IF cur.name = "cz"
           THEN IF Len(cur.qubits) < 2
                  THEN /\ pc' = "error"
                       /\ err' = "IndexError"
                       /\ hist' = Did("scan", cur, NoIns, t1, Sentinel)
                       /\ UNCHANGED <<circuit, wires, i, n>>
                ELSE IF BothTopsCZ(t1, t2)
                  THEN IF InRange(t1.idx, Len(popped))
                         THEN /\ circuit' = PyDel(popped, t1.idx)
                              /\ wires' = [wires EXCEPT ![qubit1] = Front(wires[qubit1]),
                                                        ![qubit2] = Front(wires[qubit2])]
                              /\ i' = Rewind(i) + 1
                              /\ n' = n - 2
                              /\ hist' = Did("cancel", cur, PyGet(popped, t1.idx), t1, t2)
                              /\ UNCHANGED <<pc, err>>
                         ELSE /\ circuit' = popped
                              /\ pc' = "error"
                              /\ err' = "IndexError"
                              /\ hist' = Did("cancel", cur, NoIns, t1, t2)
                              /\ UNCHANGED <<wires, i, n>>
                  ELSE /\ wires' = [wires EXCEPT ![qubit1] = Append(wires[qubit1], Tag(cur, i)),
                                                 ![qubit2] = Append(wires[qubit2], Tag(cur, i))]
                       /\ i' = i + 1
                       /\ hist' = Did("push", cur, NoIns, t1, t2)
                       /\ UNCHANGED <<circuit, n, pc, err>>
           ELSE /\ wires' = [wires EXCEPT ![qubit1] = Append(wires[qubit1], Tag(cur, i))]
                /\ i' = i + 1
                /\ hist' = Did("push", cur, NoIns, t1, Sentinel)
                /\ UNCHANGED <<circuit, n, pc, err>>
  /\ UNCHANGED cvars
  /\ UNCHANGED <<input, indicesToPop, j, run, out1>>

\* return circuit,wires; simplify then enters combineRotations
removeDoubleCZReturn ==
  /\ pc = "removeDoubleCZ"
  /\ i >= n
  /\ indicesToPop' = <<>>
  /\ j' = 0
  /\ i' = 0
  /\ n' = Len(wires[0])
  /\ pc' = "combineRotations"
  /\ hist' = NoHist
  /\ UNCHANGED cvars
  /\ UNCHANGED <<input, circuit, wires, err, run, out1>>

\* ---- combineRotations ----
\* an entry of indicesToPop: the index, and the instruction the tag named
Mark(t) == [idx |-> t.idx, id |-> t.id]

\* circuit.data[index][0].params[0] can be read
HasAngle(c, index) == InRange(index, Len(c)) /\ Len(PyGet(c, index).params) >= 1

IsFullTurn(Sum) == Round2(Sum) = Round2(TwoPI)

\* one iteration of the while loop over wires[j]
combineRotations ==
  /\ pc = "combineRotations"
  /\ j < NQ
  /\ i < n - 1
  /\ LET w == wires[j]
         ta == PyGet(w, i)
         tb == PyGet(w, i + 1)
         index1 == ta.idx
         index2 == tb.idx
         angle1 == PyGet(circuit, index1).params[1]
         angle2 == PyGet(circuit, index2).params[1]
         Sum == angle1 + angle2
         fused == [PyGet(circuit, index2) EXCEPT !.params = <<Sum>>]
         w1 == PyDel(w, i)
         w2 == PyDel(w1, i)
     IN  IF ta.kind = tb.kind
           THEN IF ta.kind = ""
                  THEN /\ pc' = "error"
                       /\ err' = "ValueError"
                       /\ hist' = Did("fuse", NoIns, NoIns, ta, tb)
                       /\ UNCHANGED <<circuit, wires, indicesToPop, i, n>>
                ELSE IF ~(HasAngle(circuit, index1) /\ HasAngle(circuit, index2))
                  THEN /\ pc' = "error"
                       /\ err' = "IndexError"
                       /\ hist' = Did("fuse", NoIns, NoIns, ta, tb)
                       /\ UNCHANGED <<circuit, wires, indicesToPop, i, n>>
                ELSE /\ circuit' = PySet(circuit, index2, fused)
                     /\ hist' = Did(IF IsFullTurn(Sum) THEN "collapse" ELSE "fuse",
                                    PyGet(circuit, index1), PyGet(circuit, index2), ta, tb)
                     /\ IF IsFullTurn(Sum)
                          THEN /\ indicesToPop' = indicesToPop \o <<Mark(ta), Mark(tb)>>
                               /\ wires' = [wires EXCEPT ![j] = w2]
                               /\ n' = n - 2
                               /\ i' = i - 2
                          ELSE /\ indicesToPop' = Append(indicesToPop, Mark(ta))
                               /\ wires' = [wires EXCEPT ![j] = w1]
                               /\ n' = n - 1
                               /\ i' = i
                     /\ UNCHANGED <<pc, err>>
           ELSE /\ i' = i + 1
                /\ hist' = Did("skip", NoIns, NoIns, ta, tb)
                /\ UNCHANGED <<circuit, wires, indicesToPop, n, pc, err>>
  /\ UNCHANGED cvars
  /\ UNCHANGED <<input, j, run, out1>>

\* sorted(indicesToPop, reverse=True): stable insertion by descending idx
RECURSIVE InsertDesc(_, _)
InsertDesc(m, l) ==
  IF l = <<>> THEN <<m>>
  ELSE IF Head(l).idx >= m.idx THEN <<Head(l)>> \o InsertDesc(m, Tail(l))
  ELSE <<m>> \o l

RECURSIVE SortedDesc(_)
SortedDesc(l) ==
  IF l = <<>> THEN <<>> ELSE InsertDesc(l[Len(l)], SortedDesc(Front(l)))

\* the while loop over wires[j] ends: the next wire, or the sort after the last
combineRotationsNextWire ==
  /\ pc = "combineRotations"
  /\ j < NQ
  /\ i >= n - 1
  /\ j' = j + 1
  /\ IF j + 1 < NQ
       THEN /\ i' = 0
            /\ n' = Len(wires[j + 1])
            /\ UNCHANGED <<indicesToPop, pc>>
       ELSE /\ indicesToPop' = SortedDesc(indicesToPop)
            /\ pc' = "pop"
            /\ UNCHANGED <<i, n>>
  /\ hist' = NoHist
  /\ UNCHANGED cvars
  /\ UNCHANGED <<input, circuit, wires, err, run, out1>>

\* [circuit.data.pop(i) for i in indicesToPop]: one pop
combineRotationsPop ==
  /\ pc = "pop"
  /\ indicesToPop # <<>>
  /\ LET m == Head(indicesToPop)
     IN  IF InRange(m.idx, Len(circuit))
           THEN /\ circuit' = PyDel(circuit, m.idx)
                /\ indicesToPop' = Tail(indicesToPop)
                /\ hist' = Did("pop", PyGet(circuit, m.idx), NoIns,
                               [kind |-> "", idx |-> m.idx, id |-> m.id], Sentinel)
                /\ UNCHANGED <<pc, err>>
           ELSE /\ pc' = "error"
                /\ err' = "IndexError"
                /\ hist' = Did("pop", NoIns, NoIns,
                               [kind |-> "", idx |-> m.idx, id |-> m.id], Sentinel)
                /\ UNCHANGED <<circuit, indicesToPop>>
  /\ UNCHANGED cvars
  /\ UNCHANGED <<input, wires, i, n, j, run, out1>>

\* return circuit, out of combineRotations and of simplify; wires is dropped
combineRotationsReturn ==
  /\ pc = "pop"
  /\ indicesToPop = <<>>
  /\ pc' = "done"
  /\ out1' = IF run = 1 THEN Strip(circuit) ELSE out1
  /\ wires' = [q \in Qubits |-> <<>>]
  /\ i' = 0
  /\ n' = 0
  /\ j' = 0
  /\ hist' = NoHist
  /\ UNCHANGED cvars
  /\ UNCHANGED <<input, circuit, indicesToPop, err, run>>

\* the caller hands the result to simplify once more
simplifyAgain ==
  /\ pc = "done"
  /\ run = 1
  /\ run' = 2
  /\ pc' = "removeZeroRotations"
  /\ n' = Len(circuit)
  /\ i' = 0
  /\ hist' = NoHist
  /\ UNCHANGED cvars
  /\ UNCHANGED <<input, circuit, wires, indicesToPop, j, err, out1>>

Next ==
  \/ removeZeroRotations
  \/ removeZeroRotationsReturn
  \/ removeDoubleCZ
  \/ removeDoubleCZReturn
  \/ combineRotations
  \/ combineRotationsNextWire
  \/ combineRotationsPop
  \/ combineRotationsReturn
  \/ simplifyAgain

Spec == Init /\ [][Next]_vars

SpecSmall == InitSmall /\ [][Next]_vars
\* ======================= properties =======================
\* ---- instructions whose kind does not fit their number of targets ----
\* a rotation on two qubits, a cz on one
IsMalformed(ins) ==
  \/ ins.name = "cz" /\ Len(ins.qubits) # 2
  \/ ins.name \in {"rx", "rz"} /\ Len(ins.qubits) # 1

MalformedAngles == {0, 1000}

MalformedInstructions ==
  {[name |-> nm, params |-> <<a>>, qubits |-> e.qubits] :
     nm \in {"rx", "rz"}, a \in MalformedAngles, e \in Entangles}
    \cup {[name |-> "cz", params |-> <<>>, qubits |-> <<q>>] : q \in Qubits}

InputsMalformed ==
  UNION {[1 .. m -> RotationsOver(MalformedAngles) \cup Entangles \cup MalformedInstructions]
           : m \in 0 .. SmallLen}

InitMalformed == Start(InputsMalformed)

SpecMalformed == InitMalformed /\ [][Next]_vars

\* ---- compiler ----
\* the gates of the circuit given to compiler: a gate is known here by the
\* qubits it is applied to (1 to MaxArity distinct qubits)
RECURSIVE QubitLists(_)
QubitLists(m) ==
  IF m = 0 THEN {<<>>}
  ELSE {Append(l, q) : l \in QubitLists(m - 1), q \in Qubits}

SourceGates ==
  {[qubits |-> l] : l \in {l \in UNION {QubitLists(m) : m \in 1 .. MaxArity} :
                             \A a, b \in DOMAIN l : a # b => l[a] # l[b]}}

Sources == UNION {[1 .. m -> SourceGates] : m \in 0 .. MaxGates}

\* angles the decomposers return
DecAngles == {1000, 3140}

\* an instruction of a decomposition, on the decomposer's own qubit slots
Local(name, params, slots) == [name |-> name, params |-> params, slots |-> slots]

\* oneQubitDecomppser: basis ZXZ, each of the three rotations present or not
OneQubitDecompositions ==
  LET Z == {<<>>} \cup {<<Local("rz", <<a>>, <<0>>)>> : a \in DecAngles}
      X == {<<>>} \cup {<<Local("rx", <<a>>, <<0>>)>> : a \in DecAngles}
  IN  {z1 \o x \o z2 : z1 \in Z, x \in X, z2 \in Z}

\* twoQubitDecomppser: cz on both slots and rotations on either slot
TwoQubitDecompositions ==
  LET G == {Local("cz", <<>>, <<0, 1>>)}
             \cup {Local(nm, <<1000>>, <<sl>>) : nm \in {"rz", "rx"}, sl \in {0, 1}}
  IN  UNION {[1 .. m -> G] : m \in 0 .. MaxDec}

\* decomposedCircuit.append(gate, positions) for each gate (lines 106, 117, 121)
Place(dec, positions) ==
  [k \in DOMAIN dec |->
     [name |-> dec[k].name,
      params |-> dec[k].params,
      qubits |-> IF Len(dec[k].slots) = 2 THEN positions
                 ELSE <<positions[dec[k].slots[1] + 1]>>]]

\* one iteration of the for loop over circuit.data
compiler ==
  /\ pc = "compiler"
  /\ item < Len(source)
  /\ LET positions == source[item + 1].qubits
         numOfQubits == Len(positions)
     IN  IF numOfQubits = 1
           THEN \E dec \in OneQubitDecompositions :
                  decomposedCircuit' = decomposedCircuit \o Place(dec, positions)
         ELSE IF numOfQubits = 2
           THEN \E dec \in TwoQubitDecompositions :
                  decomposedCircuit' = decomposedCircuit \o Place(dec, positions)
         ELSE decomposedCircuit' = decomposedCircuit
  /\ item' = item + 1
  /\ UNCHANGED <<source, input, circuit, wires, indicesToPop, i, n, j, pc, err, run, out1, hist>>

\* return decomposedCircuit
compilerReturn ==
  /\ pc = "compiler"
  /\ item >= Len(source)
  /\ pc' = "compiled"
  /\ UNCHANGED <<source, item, decomposedCircuit>>
  /\ UNCHANGED <<input, circuit, wires, indicesToPop, i, n, j, err, run, out1, hist>>

InitCompiler ==
  /\ source \in Sources
  /\ item = 0
  /\ decomposedCircuit = <<>>
  /\ pc = "compiler"
  /\ input = <<>>
  /\ circuit = <<>>
  /\ wires = [q \in Qubits |-> <<>>]
  /\ indicesToPop = <<>>
  /\ i = 0
  /\ n = 0
  /\ j = 0
  /\ err = "none"
  /\ run = 1
  /\ out1 = <<>>
  /\ hist = NoHist

NextCompiler == compiler \/ compilerReturn

SpecCompiler == InitCompiler /\ [][NextCompiler]_vars

Touches(ins, q) == \E k \in DOMAIN ins.qubits : ins.qubits[k] = q

IsRot(ins) == ins.name \in {"rx", "rz"}

\* the instructions of c that touch qubit q, in order
OnWire(c, q) ==
  LET T(x) == Touches(x, q) IN SelectSeq(c, T)

RECURSIVE SumAngles(_)
SumAngles(c) == IF c = <<>> THEN 0 ELSE c[1].params[1] + SumAngles(Tail(c))

\* 0-based position in c of the instruction with identity d, -1 if it is gone
PosOf(c, d) ==
  IF \E k \in DOMAIN c : c[k].id = d
    THEN (CHOOSE k \in DOMAIN c : c[k].id = d) - 1
    ELSE -1

Ended == run = 1 /\ pc \in {"done", "error"}

\* C1: during removeDoubleCZ (after every scan step and when the loop ends)
\* every tag on every wire names an instruction that is still in the sequence,
\* and the index stored in the tag is that instruction's current position.
C1_WireIndexValid ==
  pc = "removeDoubleCZ" =>
    \A q \in Qubits : \A k \in 2 .. Len(wires[q]) :
      /\ PosOf(circuit, wires[q][k].id) >= 0
      /\ wires[q][k].idx = PosOf(circuit, wires[q][k].id)

\* equality of angles up to whole turns, at 2-decimal precision
SameAngle(a, b) == Round2(a - b) % Round2(TwoPI) = 0

IsNoOpSum(a) == Round2(a) = 0 \/ Round2(a) = Round2(TwoPI)

\* wire q of the input carries k >= 2 rotations of one kind and nothing else,
\* none of them a no-op by itself
RunOnly(q) ==
  LET w == OnWire(input, q)
  IN  /\ Len(w) >= 2
      /\ \A k \in DOMAIN w :
            /\ IsRot(w[k])
            /\ w[k].name = w[1].name
            /\ w[k].params[1] # 0
            /\ w[k].params[1] # TwoPI

\* C2: when wire q of the input carries only k >= 2 rotations of one kind whose
\* angle sum is not a no-op, a completed simplify leaves exactly one rotation of
\* that kind on q, and its angle is the sum of the k angles (up to whole turns).
C2_FusedToSum ==
  (run = 1 /\ pc = "done") =>
    \A q \in Qubits :
      (RunOnly(q) /\ ~IsNoOpSum(SumAngles(OnWire(input, q)))) =>
        LET w == OnWire(circuit, q)
        IN  /\ Len(w) = 1
            /\ w[1].name = OnWire(input, q)[1].name
            /\ SameAngle(w[1].params[1], SumAngles(OnWire(input, q)))

SamePair(x, y) ==
  /\ Len(x.qubits) = 2
  /\ Len(y.qubits) = 2
  /\ {x.qubits[1], x.qubits[2]} = {y.qubits[1], y.qubits[2]}

\* C3: whenever removeDoubleCZ cancels, the top tags of the two wires were
\* recorded for one and the same earlier ENTANGLE (equal indices), and the
\* instruction deleted with the scanned one is an ENTANGLE on the same pair.
C3_CancelSameInstance ==
  hist.op = "cancel" =>
    /\ hist.t1.idx = hist.t2.idx
    /\ hist.t1.id = hist.t2.id
    /\ hist.y.name = "cz"
    /\ SamePair(hist.x, hist.y)

\* C4: when wire q of the input carries only k >= 2 rotations of one kind whose
\* angle sum rounds to 0 or to a full turn, simplify completes and leaves no
\* instruction on q.
C4_NoOpSumCollapses ==
  Ended =>
    \A q \in Qubits :
      (RunOnly(q) /\ IsNoOpSum(SumAngles(OnWire(input, q)))) =>
        /\ pc = "done"
        /\ OnWire(circuit, q) = <<>>
\* C5: a second simplify, run on the result of a completed simplify, completes
\* and returns the identical sequence.
C5_Idempotent ==
  (run = 2 /\ pc \in {"done", "error"}) => (pc = "done" /\ Strip(circuit) = out1)

\* C6: two consecutive ENTANGLE entries of a wire never enter the fuse step of
\* combineRotations (are never read for an angle, fused or marked).
C6_NoFuseOfEntangle ==
  hist.op \in {"fuse", "collapse"} => hist.t1.kind # "cz"

\* C7: combineRotations removes no marked instruction while wires are scanned;
\* the marked indices are then popped in strictly descending order, and every
\* pop deletes exactly the instruction that was marked.
C7_DeferredDeletion ==
  /\ pc = "combineRotations" =>
       \A k \in DOMAIN indicesToPop : PosOf(circuit, indicesToPop[k].id) >= 0
  /\ pc = "pop" =>
       \A k, l \in DOMAIN indicesToPop :
         k < l => indicesToPop[k].idx > indicesToPop[l].idx
  /\ hist.op = "pop" => hist.x.id = hist.t1.id

\* the input is ENTANGLE instructions only, all on one unordered qubit pair
AllOnePair(c) ==
  /\ c # <<>>
  /\ \A k \in DOMAIN c : c[k].name = "cz" /\ SamePair(c[k], c[1])

\* C8: for an input of 2k ENTANGLE instructions on one qubit pair and nothing
\* else, simplify completes and returns the empty sequence.
C8_EvenRunCancels ==
  (AllOnePair(input) /\ Len(input) % 2 = 0) =>
    /\ pc # "error"
    /\ pc = "done" => circuit = <<>>

C8_Witness ==
  /\ run = 1
  /\ pc = "done"
  /\ AllOnePair(input)
  /\ Len(input) = 4
  /\ circuit = <<>>

\* C9: removeDoubleCZ never cancels two ENTANGLE instructions on one qubit pair
\* that have a non-cancelled instruction on either qubit between them.
C9_NoCancelAcross ==
  (hist.op = "cancel" /\ hist.y.name = "cz" /\ SamePair(hist.x, hist.y)) =>
    ~ \E k \in DOMAIN circuit :
        /\ hist.y.id < circuit[k].id
        /\ circuit[k].id < hist.x.id
        /\ \/ Touches(circuit[k], hist.x.qubits[1])
           \/ Touches(circuit[k], hist.x.qubits[2])

\* an instruction whose single angle is 0 or the full-turn constant
NoOp(ins) == Len(ins.params) = 1 /\ (ins.params[1] = 0 \/ ins.params[1] = TwoPI)

Kept(c) ==
  LET K(x) == ~NoOp(x) IN SelectSeq(c, K)

\* C10: when removeZeroRotations returns, the sequence is exactly the
\* subsequence of the input's instructions that are not no-op rotations, each
\* unaltered and in the input's order.
C10_ExactlyNoOpsRemoved ==
  (run = 1 /\ pc = "removeZeroRotations" /\ i >= n) =>
    circuit = Kept(WithIds(input))

C10_Witness ==
  /\ run = 1
  /\ pc = "removeZeroRotations"
  /\ i >= n
  /\ Len(input) = 2
  /\ input[1].params = <<0>>
  /\ input[2].params = <<TwoPI>>
  /\ circuit = <<>>
\* C11: no step of any of the three passes makes the sequence longer, so the
\* sequence after each pass, and the one simplify returns, is no longer than
\* the input.
C11_LengthNonIncreasing == [][Len(circuit') <= Len(circuit)]_vars

C11_Witness ==
  /\ run = 1
  /\ pc = "done"
  /\ circuit # <<>>
  /\ Len(circuit) < Len(input)
  /\ \E k \in DOMAIN input : input[k].name = "cz"
\* C12: every pass ends by reaching its return statement: no run of simplify
\* stops inside a pass with an exception.
C12_ReachesReturn == pc # "error"
\* C13: compiler does not return normally when the circuit it is given holds a
\* gate on a number of qubits other than 1 or 2.
C13_UnsupportedArityIsError ==
  pc = "compiled" =>
    \A k \in DOMAIN source : Len(source[k].qubits) \in {1, 2}
\* C14: when removeZeroRotations or removeDoubleCZ scans an instruction whose
\* kind does not fit its number of targets, the pass stops with an error.
C14_MalformedFailsFast ==
  (hist.op \in {"keep", "drop", "push", "cancel", "scan"} /\ IsMalformed(hist.x))
    => pc = "error"
\* C15: a cancel step of removeDoubleCZ pops within the bounds of the sequence,
\* and the second instruction it pops is a cz: the one the top tag of the first
\* qubit's wire was recorded for.
C15_CancelDeletesOnlyPair ==
  hist.op = "cancel" =>
    /\ hist.y # NoIns
    /\ hist.x.name = "cz"
    /\ hist.y.name = "cz"
    /\ hist.y.id = hist.t1.id

\* C16: a fuse step of combineRotations on wire j reads and writes two distinct
\* rotations of one kind whose only target is j, the ones the two tags were
\* recorded for.
C16_FuseOnOwnWire ==
  (hist.op \in {"fuse", "collapse"} /\ pc # "error") =>
    /\ hist.x.id # hist.y.id
    /\ IsRot(hist.x) /\ IsRot(hist.y)
    /\ hist.x.name = hist.y.name
    /\ hist.x.qubits = <<j>> /\ hist.y.qubits = <<j>>
    /\ hist.x.id = hist.t1.id /\ hist.y.id = hist.t2.id
====
